---- MODULE Spec2Model ----
(***************************************************************************)
(* Behaviour layer of the report page (static/js/report.js).               *)
(*                                                                         *)
(* Two components share the page:                                          *)
(*   - the filter controller: applyFilters over the .check-row rows,       *)
(*     driven by the #toggle-na and #toggle-pass checkboxes;               *)
(*   - the pro steps loader: onOpenPro / loadProSteps, one trigger button  *)
(*     and one .pro-content panel per check id, and the page-wide cache.   *)
(*                                                                         *)
(* The page is single threaded.  A handler runs to its next await; the     *)
(* two awaits of a load (the fetch, then the body read by r.json()) are    *)
(* the only points where other events interleave.  A rejected promise      *)
(* that involves no I/O (missing report id) is settled in a microtask,     *)
(* before any other event, and is therefore part of the click step.        *)
(***************************************************************************)
EXTENDS Integers, FiniteSets, Sequences, TLC

\* ------------------------------------------------------------------ bounds

\* Cap on the network requests issued per check id (the code has no cap).
MaxRequests == 2

\* ------------------------------------------------------------- page content

\* The check ids that have a trigger button and a panel on the page.
Items == {"c1", "c2"}

\* A row is identified by its two classification classes; all four kinds
\* of row are on the page.
Rows == [na : BOOLEAN, pass : BOOLEAN]

\* A checkbox is absent from the page, or present and unchecked / checked.
ToggleStates == {"absent", "unchecked", "checked"}

\* Labels a trigger can carry when the page is delivered.
InitLabels == {"", "Show steps", "View fix"}

\* Values of the content_md field of a response body ("absent": no field).
ContentMds == {"absent", "", "Step 1", "Step 2"}

\* HTTP statuses a response can carry.
Statuses == {200, 402, 403, 404, 500}

\* Parsed response bodies: JSON null, an explicit failure object
\* {ok: false, reason}, or an object carrying (or lacking) content_md.
Bodies ==
    {[null |-> TRUE, ok |-> "absent", reason |-> "absent", content_md |-> "absent"]}
    \cup [null : {FALSE}, ok : {"false"}, reason : {"PRO_REQUIRED", "ERROR", "absent"},
          content_md : {"absent"}]
    \cup [null : {FALSE}, ok : {"absent", "true"}, reason : {"absent"},
          content_md : ContentMds]

\* Local variable with no value (handler not running).
Nil == "<nil>"

\* The loading indicator of line 111 ("Loading" and U+2026, written here
\* with three dots).
LoadingLabel == "Loading..."

ProRequiredMsg == "Pro required to view step-by-step fixes."
NotFoundMsg == "Steps not found for this check yet."
RetryMsg == "Failed to load steps. Please try again."

EmptyPanel == [tag |-> "none", text |-> ""]

VARIABLES
    toggleNa,     \* state of #toggle-na
    togglePass,   \* state of #toggle-pass
    rowDisplay,   \* row -> inline style.display
    reportId,     \* data-report-id of #report-root, or Nil
    dataIsPro,    \* data-is-pro of #report-root, or Nil
    location,     \* window.location.href
    cache,        \* the Map checkId -> content_md
    display,      \* item -> panel inline style.display
    content,      \* item -> panel child element
    label,        \* item -> trigger textContent
    disabled,     \* item -> trigger disabled
    calls,        \* item -> the suspended onOpenPro calls, oldest first
    requests,     \* item -> number of fetch calls issued        (observer)
    failed,       \* item -> number of fetch calls that failed   (observer)
    outcome       \* item -> how the item's last load ended      (observer)

filterVars == <<toggleNa, togglePass, rowDisplay>>
pageVars == <<reportId, dataIsPro>>
loaderVars == <<location, cache, display, content, label, disabled, calls,
                requests, failed, outcome>>
vars == <<toggleNa, togglePass, rowDisplay, reportId, dataIsPro, location,
          cache, display, content, label, disabled, calls, requests, failed,
          outcome>>

\* ---------------------------------------------------------- filter controller

\* Faulty variant: the second test overwrites the result of the first.
RowStyleOverwrite(hideNa, hidePass, row) ==
    LET isNa == row.na
        isPass == row.pass
        h1 == hideNa /\ isNa
        h2 == hidePass /\ isPass
    IN  IF h2 THEN "none" ELSE ""

\* Body of the forEach callback of applyFilters: the display of one row.
RowStyle(hideNa, hidePass, row) ==
    LET isNa == row.na
        isPass == row.pass
        h0 == FALSE
        h1 == IF hideNa /\ isNa THEN TRUE ELSE h0
        h2 == IF hidePass /\ isPass THEN TRUE ELSE h1
    IN  IF h2 THEN "none" ELSE ""

\* applyFilters(): the display of every row under the given toggles.
applyFilters(tNa, tPass) ==
    LET hideNa == IF tNa # "absent" THEN tNa = "checked" ELSE FALSE
        hidePass == IF tPass # "absent" THEN tPass = "checked" ELSE FALSE
    IN  [row \in Rows |-> RowStyle(hideNa, hidePass, row)]

Flip(t) == IF t = "checked" THEN "unchecked" ELSE "checked"

\* Faulty variant: the filter pass also hides the .pro-content panels.
ChangeNaHidesPanels ==
    /\ toggleNa # "absent"
    /\ toggleNa' = Flip(toggleNa)
    /\ rowDisplay' = applyFilters(toggleNa', togglePass)
    /\ display' = [i \in DOMAIN display |-> "none"]
    /\ UNCHANGED <<togglePass, pageVars, location, cache, content, label,
                   disabled, calls, requests, failed, outcome>>

\* change event of #toggle-na (the listener exists only if the box does).
ChangeNa ==
    /\ toggleNa # "absent"
    /\ toggleNa' = Flip(toggleNa)
    /\ rowDisplay' = applyFilters(toggleNa', togglePass)
    /\ UNCHANGED <<togglePass, pageVars, loaderVars>>

\* change event of #toggle-pass.
ChangePass ==
    /\ togglePass # "absent"
    /\ togglePass' = Flip(togglePass)
    /\ rowDisplay' = applyFilters(toggleNa, togglePass')
    /\ UNCHANGED <<toggleNa, pageVars, loaderVars>>

\* ------------------------------------------------------------- page flags

isPro == dataIsPro = "1"

\* Faulty variant: loadProSteps without the test of line 62.
hasReportIdUnchecked == TRUE

\* if (!reportId): the attribute is there and not empty.
hasReportId == reportId # Nil /\ reportId # ""

\* --------------------------------------------------------------- rendering

\* renderMdPlain(md): a <pre> whose text is md || "".
renderMdPlain(md) == [tag |-> "pre", text |-> IF md = "" THEN "" ELSE md]

\* setContainerMessage(container, msg): a single <div> holding msg.
setContainerMessage(msg) == [tag |-> "div", text |-> msg]

\* Faulty variant: only server errors count as not ok.
ResponseOkBelow500(status) == status < 500

\* r.ok of a fetch response.
ResponseOk(status) == status >= 200 /\ status <= 299

\* Faulty variant: the Map is rebuilt with the new entry alone.
CacheSetReplaces(c, i, md) == [j \in {i} |-> md]

\* cache.set(checkId, md)
CacheSet(c, i, md) ==
    [j \in (DOMAIN c) \cup {i} |-> IF j = i THEN md ELSE c[j]]

\* ---------------------------------------------------------- pro steps loader

isVisible(i) == display[i] # "none"

\* The browser dispatches no click to a disabled button.
Clickable(i) == ~disabled[i]

\* Number of onOpenPro calls of the item suspended on an await.
InFlight(i) == Len(calls[i])

RemoveAt(s, k) == SubSeq(s, 1, k - 1) \o SubSeq(s, k + 1, Len(s))

\* Faulty variant: closing hides the panel and leaves the label as it is.
ClickCloseKeepsLabel(i) ==
    /\ Clickable(i)
    /\ isVisible(i)
    /\ display' = [display EXCEPT ![i] = "none"]
    /\ UNCHANGED <<location, cache, content, label, disabled, calls, requests,
                   failed, outcome, filterVars, pageVars>>

\* Lines 96-101: the panel is visible, the click closes it.
ClickClose(i) ==
    /\ Clickable(i)
    /\ isVisible(i)
    /\ display' = [display EXCEPT ![i] = "none"]
    /\ label' = [label EXCEPT ![i] = "Show steps"]
    /\ UNCHANGED <<location, cache, content, disabled, calls, requests,
                   failed, outcome, filterVars, pageVars>>

\* Faulty variant: the access check comes after lines 109-111.
ClickRedirectAfterLoading(i) ==
    /\ Clickable(i)
    /\ ~isVisible(i)
    /\ ~isPro
    /\ location' = "/pricing"
    /\ disabled' = [disabled EXCEPT ![i] = TRUE]
    /\ label' = [label EXCEPT ![i] = "Loading..."]
    /\ UNCHANGED <<cache, display, content, calls, requests, failed, outcome,
                   filterVars, pageVars>>

\* Lines 103-107: the panel is hidden and the user is not pro.
ClickRedirect(i) ==
    /\ Clickable(i)
    /\ ~isVisible(i)
    /\ ~isPro
    /\ location' = "/pricing"
    /\ UNCHANGED <<cache, display, content, label, disabled, calls, requests,
                   failed, outcome, filterVars, pageVars>>

\* Lines 109-119 and 146-148: cache hit, rendered without suspension.
ClickCacheHit(i) ==
    /\ Clickable(i)
    /\ ~isVisible(i)
    /\ isPro
    /\ i \in DOMAIN cache
    /\ content' = [content EXCEPT ![i] = renderMdPlain(cache[i])]
    /\ display' = [display EXCEPT ![i] = "block"]
    /\ label' = [label EXCEPT ![i] = "Hide steps"]
    /\ disabled' = [disabled EXCEPT ![i] = FALSE]
    /\ outcome' = [outcome EXCEPT ![i] = "cache"]
    /\ UNCHANGED <<location, cache, calls, requests, failed, filterVars,
                   pageVars>>

\* Faulty variant: the catch block hardcodes the label.
RestoredLabelHardcoded(prev) == "Show steps"

\* The label the catch block sets: prevText || "Show steps".
RestoredLabel(prev) == IF prev = "" THEN "Show steps" ELSE prev

\* Lines 142-145: the catch block.
Caught(i, prev) ==
    /\ display' = [display EXCEPT ![i] = "block"]
    /\ content' = [content EXCEPT ![i] = setContainerMessage(RetryMsg)]
    /\ label' = [label EXCEPT ![i] = RestoredLabel(prev)]

\* Lines 109-111, 62 and 142-148: no report id, loadProSteps throws before
\* any fetch and the catch block runs.
ClickMissingReportId(i) ==
    /\ Clickable(i)
    /\ ~isVisible(i)
    /\ isPro
    /\ i \notin DOMAIN cache
    /\ ~hasReportId
    /\ Caught(i, label[i])
    /\ disabled' = [disabled EXCEPT ![i] = FALSE]
    /\ outcome' = [outcome EXCEPT ![i] = "no-report-id"]
    /\ UNCHANGED <<location, cache, calls, requests, failed, filterVars,
                   pageVars>>

\* Faulty variant: the load starts without disabling the trigger (line 109).
ClickFetchNoDisable(i) ==
    /\ Clickable(i)
    /\ ~isVisible(i)
    /\ isPro
    /\ i \notin DOMAIN cache
    /\ hasReportId
    /\ requests[i] < MaxRequests
    /\ calls' = [calls EXCEPT ![i] =
                    Append(@, [pc |-> "fetch", prevText |-> label[i]])]
    /\ label' = [label EXCEPT ![i] = "Loading..."]
    /\ requests' = [requests EXCEPT ![i] = @ + 1]
    /\ UNCHANGED <<location, cache, display, content, disabled, failed,
                   outcome, filterVars, pageVars>>

\* Faulty variant: the load starts without the cache test of line 114.
ClickFetchIgnoresCache(i) ==
    /\ Clickable(i)
    /\ ~isVisible(i)
    /\ isPro
    /\ hasReportId
    /\ requests[i] < MaxRequests
    /\ disabled' = [disabled EXCEPT ![i] = TRUE]
    /\ calls' = [calls EXCEPT ![i] =
                    Append(@, [pc |-> "fetch", prevText |-> label[i]])]
    /\ label' = [label EXCEPT ![i] = "Loading..."]
    /\ requests' = [requests EXCEPT ![i] = @ + 1]
    /\ UNCHANGED <<location, cache, display, content, failed, outcome,
                   filterVars, pageVars>>

\* Faulty variant: the load starts without the access check of line 104.
ClickFetchUngated(i) ==
    /\ Clickable(i)
    /\ ~isVisible(i)
    /\ i \notin DOMAIN cache
    /\ hasReportId
    /\ requests[i] < MaxRequests
    /\ disabled' = [disabled EXCEPT ![i] = TRUE]
    /\ calls' = [calls EXCEPT ![i] =
                    Append(@, [pc |-> "fetch", prevText |-> label[i]])]
    /\ label' = [label EXCEPT ![i] = "Loading..."]
    /\ requests' = [requests EXCEPT ![i] = @ + 1]
    /\ UNCHANGED <<location, cache, display, content, failed, outcome,
                   filterVars, pageVars>>

\* Lines 109-111, 122 and 64-65: the load starts and suspends on fetch.
ClickFetch(i) ==
    /\ Clickable(i)
    /\ ~isVisible(i)
    /\ isPro
    /\ i \notin DOMAIN cache
    /\ hasReportId
    /\ requests[i] < MaxRequests
    /\ disabled' = [disabled EXCEPT ![i] = TRUE]
    /\ calls' = [calls EXCEPT ![i] =
                    Append(@, [pc |-> "fetch", prevText |-> label[i]])]
    /\ label' = [label EXCEPT ![i] = "Loading..."]
    /\ requests' = [requests EXCEPT ![i] = @ + 1]
    /\ UNCHANGED <<location, cache, display, content, failed, outcome,
                   filterVars, pageVars>>

\* click handler of a .pro-open-btn (lines 152-158) calling onOpenPro.
Click(i) ==
    \/ ClickClose(i)
    \/ ClickRedirect(i)
    \/ ClickCacheHit(i)
    \/ ClickMissingReportId(i)
    \/ ClickFetch(i)

\* Faulty variant: a failure result is stored in the cache as empty text.
FailureResultCached(i, k, reason) ==
    /\ display' = [display EXCEPT ![i] = "block"]
    /\ content' = [content EXCEPT ![i] =
                      IF reason = "PRO_REQUIRED"
                      THEN setContainerMessage(ProRequiredMsg)
                      ELSE setContainerMessage(NotFoundMsg)]
    /\ label' = [label EXCEPT ![i] = "Show steps"]
    /\ disabled' = [disabled EXCEPT ![i] = FALSE]
    /\ calls' = [calls EXCEPT ![i] = RemoveAt(@, k)]
    /\ failed' = [failed EXCEPT ![i] = @ + 1]
    /\ cache' = CacheSet(cache, i, "")
    /\ UNCHANGED <<location, requests>>

\* A click that opens: the panel is hidden and the access flag is true, so
\* the click enters the load sequence (line 109).
OpenClick(i) == Click(i) /\ ~isVisible(i) /\ isPro

\* Faulty variant: both failure branches set the label of the success branch.
FailureResultHideLabel(i, k, reason) ==
    /\ display' = [display EXCEPT ![i] = "block"]
    /\ content' = [content EXCEPT ![i] =
                      IF reason = "PRO_REQUIRED"
                      THEN setContainerMessage(ProRequiredMsg)
                      ELSE setContainerMessage(NotFoundMsg)]
    /\ label' = [label EXCEPT ![i] = "Hide steps"]
    /\ disabled' = [disabled EXCEPT ![i] = FALSE]
    /\ calls' = [calls EXCEPT ![i] = RemoveAt(@, k)]
    /\ failed' = [failed EXCEPT ![i] = @ + 1]
    /\ UNCHANGED <<location, cache, requests>>

\* Lines 123-133 and 146-148: call k of the item got a failure result.
FailureResult(i, k, reason) ==
    /\ display' = [display EXCEPT ![i] = "block"]
    /\ content' = [content EXCEPT ![i] =
                      IF reason = "PRO_REQUIRED"
                      THEN setContainerMessage(ProRequiredMsg)
                      ELSE setContainerMessage(NotFoundMsg)]
    /\ label' = [label EXCEPT ![i] = "Show steps"]
    /\ disabled' = [disabled EXCEPT ![i] = FALSE]
    /\ calls' = [calls EXCEPT ![i] = RemoveAt(@, k)]
    /\ failed' = [failed EXCEPT ![i] = @ + 1]
    /\ UNCHANGED <<location, cache, requests>>

\* Faulty variant: the catch block runs and no finally block follows it.
ThrownNoFinally(i, k) ==
    /\ Caught(i, calls[i][k].prevText)
    /\ calls' = [calls EXCEPT ![i] = RemoveAt(@, k)]
    /\ failed' = [failed EXCEPT ![i] = @ + 1]
    /\ UNCHANGED <<location, cache, requests, disabled>>

\* Faulty variant: the catch block issues the request again by itself.
ThrownRetries(i, k) ==
    /\ calls' = [calls EXCEPT ![i][k].pc = "fetch"]
    /\ requests' = [requests EXCEPT ![i] = @ + 1]
    /\ failed' = [failed EXCEPT ![i] = @ + 1]
    /\ UNCHANGED <<location, cache, display, content, label, disabled>>

\* Lines 142-148: an exception of call k reached the catch block.
Thrown(i, k) ==
    /\ Caught(i, calls[i][k].prevText)
    /\ disabled' = [disabled EXCEPT ![i] = FALSE]
    /\ calls' = [calls EXCEPT ![i] = RemoveAt(@, k)]
    /\ failed' = [failed EXCEPT ![i] = @ + 1]
    /\ UNCHANGED <<location, cache, requests>>

\* Lines 135-141 and 146-148: call k of the item succeeded.
Success(i, k, data) ==
    LET md == IF data.content_md \in {"absent", ""} THEN "" ELSE data.content_md
    IN  /\ cache' = CacheSet(cache, i, md)
        /\ content' = [content EXCEPT ![i] = renderMdPlain(md)]
        /\ display' = [display EXCEPT ![i] = "block"]
        /\ label' = [label EXCEPT ![i] = "Hide steps"]
        /\ disabled' = [disabled EXCEPT ![i] = FALSE]
        /\ calls' = [calls EXCEPT ![i] = RemoveAt(@, k)]
        /\ outcome' = [outcome EXCEPT ![i] = "success"]
        /\ UNCHANGED <<location, requests, failed>>

\* Lines 65-73: the fetch of a call resolves with a response of this status.
FetchResolve(i, status) ==
    /\ \E k \in 1..Len(calls[i]) :
        /\ calls[i][k].pc = "fetch"
        /\ IF status = 402 \/ status = 403
           THEN /\ FailureResult(i, k, "PRO_REQUIRED")
                /\ outcome' = [outcome EXCEPT ![i] = "status-denied"]
           ELSE IF ~ResponseOk(status)
                THEN /\ FailureResult(i, k, "ERROR")
                     /\ outcome' = [outcome EXCEPT ![i] = "status-error"]
                ELSE /\ calls' = [calls EXCEPT ![i][k].pc = "json"]
                     /\ UNCHANGED <<location, cache, display, content, label,
                                    disabled, requests, failed, outcome>>
    /\ UNCHANGED <<filterVars, pageVars>>

\* Line 65: the fetch of a call rejects (network failure).
FetchReject(i) ==
    /\ \E k \in 1..Len(calls[i]) :
        /\ calls[i][k].pc = "fetch"
        /\ Thrown(i, k)
        /\ outcome' = [outcome EXCEPT ![i] = "fetch-rejected"]
    /\ UNCHANGED <<filterVars, pageVars>>

\* Faulty variant: line 123 tests !data alone and overlooks ok === false.
JsonResolveNoOkCheck(i, data) ==
    /\ \E k \in 1..Len(calls[i]) :
        /\ calls[i][k].pc = "json"
        /\ IF data.null
           THEN /\ FailureResult(i, k, "absent")
                /\ outcome' = [outcome EXCEPT ![i] = "body-failure"]
           ELSE Success(i, k, data)
    /\ UNCHANGED <<filterVars, pageVars>>

\* Lines 73 and 122-141: r.json() of a call resolves with the parsed body.
JsonResolve(i, data) ==
    /\ \E k \in 1..Len(calls[i]) :
        /\ calls[i][k].pc = "json"
        /\ IF data.null \/ data.ok = "false"
           THEN /\ FailureResult(i, k,
                                 IF data.null THEN "absent" ELSE data.reason)
                /\ outcome' = [outcome EXCEPT ![i] = "body-failure"]
           ELSE Success(i, k, data)
    /\ UNCHANGED <<filterVars, pageVars>>

\* Line 73: r.json() of a call rejects (malformed body).
JsonReject(i) ==
    /\ \E k \in 1..Len(calls[i]) :
        /\ calls[i][k].pc = "json"
        /\ Thrown(i, k)
        /\ outcome' = [outcome EXCEPT ![i] = "json-rejected"]
    /\ UNCHANGED <<filterVars, pageVars>>

\* The values of the observer outcome that stand for a failed load.
FailedOutcomes ==
    {"status-denied", "status-error", "body-failure", "fetch-rejected",
     "json-rejected", "no-report-id"}

\* A step of the item: a click on its trigger, or the settlement of the
\* fetch or of the body read of one of its loads.
ItemStep(i) ==
    \/ Click(i)
    \/ \E status \in Statuses : FetchResolve(i, status)
    \/ FetchReject(i)
    \/ \E data \in Bodies : JsonResolve(i, data)
    \/ JsonReject(i)

\* ------------------------------------------------------------ specification

\* The page once the ready() callback has run (lines 21-158).  The markup
\* is delivered with one trigger and one panel per check id, every panel
\* hidden by an inline display of none (the state the test of line 96
\* reads as closed) and empty, every trigger enabled and carrying the same
\* label; the checkboxes may come up in any state.  applyFilters has run
\* if either checkbox exists (line 44).
Init ==
    /\ toggleNa \in ToggleStates
    /\ togglePass \in ToggleStates
    /\ rowDisplay = IF toggleNa # "absent" \/ togglePass # "absent"
                    THEN applyFilters(toggleNa, togglePass)
                    ELSE [row \in Rows |-> ""]
    /\ reportId \in {Nil, "r1"}
    /\ dataIsPro \in {Nil, "0", "1"}
    /\ location = "/report"
    /\ cache = <<>>
    /\ display = [i \in Items |-> "none"]
    /\ content = [i \in Items |-> EmptyPanel]
    /\ \E l \in InitLabels : label = [i \in Items |-> l]
    /\ disabled = [i \in Items |-> FALSE]
    /\ calls = [i \in Items |-> <<>>]
    /\ requests = [i \in Items |-> 0]
    /\ failed = [i \in Items |-> 0]
    /\ outcome = [i \in Items |-> "none"]

Next ==
    \/ ChangeNa
    \/ ChangePass
    \/ \E i \in Items : ClickClose(i)
    \/ \E i \in Items : ClickRedirect(i)
    \/ \E i \in Items : ClickCacheHit(i)
    \/ \E i \in Items : ClickMissingReportId(i)
    \/ \E i \in Items : ClickFetch(i)
    \/ \E i \in Items, status \in Statuses : FetchResolve(i, status)
    \/ \E i \in Items : FetchReject(i)
    \/ \E i \in Items, data \in Bodies : JsonResolve(i, data)
    \/ \E i \in Items : JsonReject(i)

Spec == Init /\ [][Next]_vars

\* Every issued request eventually gets its response or fails.
Respond(i) ==
    \/ \E status \in Statuses : FetchResolve(i, status)
    \/ FetchReject(i)
    \/ \E data \in Bodies : JsonResolve(i, data)
    \/ JsonReject(i)

FairSpec == Spec /\ \A i \in Items : WF_vars(Respond(i))

\* ------------------------------------------------------------------ claims

\* C1: when at least one toggle is on the page, in every state (after
\* initialization and after every change event) every row is hidden iff
\* (toggle-na is checked and the row has status-na) or (toggle-pass is
\* checked and the row has status-pass); an absent toggle counts as
\* unchecked, and a row that is not hidden has its inline display cleared.
\* The right-hand side reads the current toggle states only.
FilterContract ==
    (toggleNa # "absent" \/ togglePass # "absent") =>
        \A row \in Rows :
            /\ rowDisplay[row] \in {"none", ""}
            /\ (rowDisplay[row] = "none") <=>
                  \/ (toggleNa = "checked" /\ row.na)
                  \/ (togglePass = "checked" /\ row.pass)

\* One toggle absent, the other checked: rows carrying its tag are hidden,
\* the row carrying only the other tag is shown.
FilterWitness ==
    /\ toggleNa = "absent"
    /\ togglePass = "checked"
    /\ rowDisplay[[na |-> TRUE, pass |-> TRUE]] = "none"
    /\ rowDisplay[[na |-> TRUE, pass |-> FALSE]] = ""

\* C2: with the access flag false no request is ever issued or in flight,
\* and every step of a trigger's click handler leaves the request counts
\* alone and sets the location to /pricing.
AccessFalseRedirects ==
    /\ [](~isPro => \A i \in Items : requests[i] = 0 /\ InFlight(i) = 0)
    /\ [][\A i \in Items :
            (~isPro /\ Click(i)) =>
                (requests' = requests /\ calls' = calls
                 /\ location' = "/pricing")]_vars

\* A free user has clicked a trigger.
AccessFalseWitness ==
    ~isPro /\ location = "/pricing" /\ \A i \in Items : requests[i] = 0

\* C3: with the access flag true, (a) an item whose only loads succeeded
\* has issued exactly one request, however often it was closed and reopened;
\* (b) once an item has a cache entry no step issues a request for it;
\* (c) every open of an item with a cache entry leaves the cache alone and
\* shows the panel with the cached text, preformatted, under the label
\* "Hide steps"; (d) a successful response with content_md = c stores c and
\* renders c under the label "Hide steps".
CachedReopen ==
    /\ [](\A i \in Items :
            (i \in DOMAIN cache /\ failed[i] = 0) => requests[i] = 1)
    /\ [][\A i \in Items :
            i \in DOMAIN cache => requests'[i] = requests[i]]_vars
    /\ [][\A i \in Items :
            (i \in DOMAIN cache /\ OpenClick(i)) =>
                /\ cache' = cache
                /\ display'[i] = "block"
                /\ content'[i] = [tag |-> "pre", text |-> cache[i]]
                /\ label'[i] = "Hide steps"]_vars
    /\ [][\A i \in Items, data \in Bodies :
            (/\ JsonResolve(i, data)
             /\ ~data.null /\ data.ok # "false"
             /\ data.content_md \in {"Step 1", "Step 2"}) =>
                /\ i \in DOMAIN cache'
                /\ cache'[i] = data.content_md
                /\ display'[i] = "block"
                /\ content'[i] = [tag |-> "pre", text |-> data.content_md]
                /\ label'[i] = "Hide steps"]_vars

\* An item was loaded once with "Step 1" and is now shown from the cache.
CachedReopenWitness ==
    \E i \in Items :
        /\ outcome[i] = "cache"
        /\ cache[i] = "Step 1"
        /\ content[i] = [tag |-> "pre", text |-> "Step 1"]
        /\ display[i] = "block"
        /\ label[i] = "Hide steps"
        /\ requests[i] = 1
        /\ failed[i] = 0

\* C4 as stated: every open of an item with no cache entry issues exactly
\* one request; a load that fails creates no cache entry; an open issues no
\* request only if the item has a cache entry.
ReopenRequests ==
    /\ [][\A i \in Items :
            (OpenClick(i) /\ i \notin DOMAIN cache) =>
                requests'[i] = requests[i] + 1]_vars
    /\ [][\A i \in Items :
            failed'[i] # failed[i] => i \notin DOMAIN cache']_vars
    /\ [][\A i \in Items :
            (OpenClick(i) /\ requests'[i] = requests[i]) =>
                i \in DOMAIN cache]_vars

\* C4 amended: on a page that carries a report identifier, every open of an
\* item with no cache entry issues exactly one request; a load that fails
\* creates no cache entry; an open issues no request only if the item has a
\* cache entry; and the requests issued for an item are its failed loads,
\* plus the load in flight, plus one if the item has a cache entry.
ReopenRequestsWithReportId ==
    /\ [](\A i \in Items :
            requests[i] = failed[i] + InFlight(i)
                          + (IF i \in DOMAIN cache THEN 1 ELSE 0))
    /\ [][\A i \in Items :
            (OpenClick(i) /\ i \notin DOMAIN cache /\ hasReportId) =>
                requests'[i] = requests[i] + 1]_vars
    /\ [][\A i \in Items :
            failed'[i] # failed[i] => i \notin DOMAIN cache']_vars
    /\ [][\A i \in Items :
            (OpenClick(i) /\ hasReportId /\ requests'[i] = requests[i]) =>
                i \in DOMAIN cache]_vars

\* The first load of an item failed, the reopen issued a second request and
\* that one succeeded.
ReopenRequestsWitness ==
    \E i \in Items :
        requests[i] = 2 /\ failed[i] = 1 /\ i \in DOMAIN cache

\* C5: a response with status 402 or 403 ends the load with the panel
\* shown, holding the access-denied notice, the trigger labelled
\* "Show steps", and no cache entry for the item.
DeniedOutcome ==
    [][\A i \in Items :
        (FetchResolve(i, 402) \/ FetchResolve(i, 403)) =>
            /\ InFlight(i) = 1 /\ Len(calls'[i]) = 0
            /\ display'[i] = "block"
            /\ content'[i] = [tag |-> "div", text |-> ProRequiredMsg]
            /\ label'[i] = "Show steps"
            /\ label'[i] # "Hide steps"
            /\ i \notin DOMAIN cache']_vars

\* The load of an item has just been refused by status.
DeniedWitness ==
    \E i \in Items :
        /\ outcome[i] = "status-denied"
        /\ display[i] = "block"
        /\ content[i].text = ProRequiredMsg
        /\ label[i] = "Show steps"
        /\ i \notin DOMAIN cache

\* C6 as stated: when the fetch or the body read of a load rejects, the
\* trigger is enabled afterwards, its label is the label it had when the
\* load began, the panel shows the retry notice and the item has no cache
\* entry.
ThrownRestoresLabel ==
    [][\A i \in Items :
        (FetchReject(i) \/ JsonReject(i)) =>
            /\ ~disabled'[i]
            /\ label'[i] = Head(calls[i]).prevText
            /\ display'[i] = "block"
            /\ content'[i] = [tag |-> "div", text |-> RetryMsg]
            /\ i \notin DOMAIN cache']_vars

\* C6 amended: as above, except that an empty label is not restored: the
\* label afterwards is the label the trigger had when the load began if
\* that label was not empty, and "Show steps" if it was.  The label a load
\* saves is the one displayed at the click that starts it.
ThrownRestoresNonEmptyLabel ==
    /\ [][\A i \in Items :
            ClickFetch(i) =>
                /\ calls'[i][Len(calls'[i])].prevText = label[i]
                /\ label'[i] = "Loading..."]_vars
    /\ [][\A i \in Items :
            (FetchReject(i) \/ JsonReject(i)) =>
                /\ ~disabled'[i]
                /\ label'[i] = IF Head(calls[i]).prevText = ""
                               THEN "Show steps"
                               ELSE Head(calls[i]).prevText
                /\ display'[i] = "block"
                /\ content'[i] = [tag |-> "div", text |-> RetryMsg]
                /\ i \notin DOMAIN cache']_vars

\* A load that began under the label "View fix" has thrown and the label is
\* back.
ThrownWitness ==
    \E i \in Items :
        /\ outcome[i] \in {"fetch-rejected", "json-rejected"}
        /\ label[i] = "View fix"
        /\ ~disabled[i]
        /\ content[i].text = RetryMsg
        /\ i \notin DOMAIN cache

\* C7: a trigger is disabled only while a load of its item is suspended;
\* every step that ends a load leaves the trigger enabled; and, every
\* request being answered eventually, a disabled trigger is eventually
\* enabled again.
TriggerReenabled ==
    /\ [](\A i \in Items : InFlight(i) = 0 => ~disabled[i])
    /\ [][\A i \in Items :
            Len(calls'[i]) < Len(calls[i]) => ~disabled'[i]]_vars
    /\ \A i \in Items : disabled[i] ~> ~disabled[i]

\* One item's load has ended in the catch block, the other item's in the
\* cache-hit branch after an earlier success, and both triggers are enabled.
TriggerReenabledWitness ==
    /\ \A i \in Items : ~disabled[i]
    /\ outcome["c1"] = "json-rejected"
    /\ outcome["c2"] = "cache"

\* C8: a visible panel has an enabled trigger, and a click on the trigger
\* of a visible panel hides the panel, sets the label to "Show steps", and
\* leaves the request counts, the suspended loads, the location, the cache
\* and every trigger's enabled state unchanged.
VisibleClickCloses ==
    /\ [](\A i \in Items : isVisible(i) => Clickable(i))
    /\ [][\A i \in Items :
            (Click(i) /\ isVisible(i)) =>
                /\ display'[i] = "none"
                /\ label'[i] = "Show steps"
                /\ requests' = requests
                /\ calls' = calls
                /\ location' = location
                /\ cache' = cache
                /\ disabled' = disabled]_vars

\* An open panel has been closed: its content is still the fetched text.
VisibleClickClosesWitness ==
    \E i \in Items :
        /\ display[i] = "none"
        /\ label[i] = "Show steps"
        /\ content[i].tag = "pre"
        /\ outcome[i] \in {"success", "cache"}

\* C9: every item has at most one load suspended, hence at most one request
\* in flight, and its trigger is disabled while it has one.
SingleFlight ==
    \A i \in Items :
        /\ InFlight(i) <= 1
        /\ InFlight(i) = 1 => disabled[i]

\* Both items have a request in flight at once.
SingleFlightWitness ==
    \A i \in Items : InFlight(i) = 1 /\ disabled[i]

\* C10 as stated, its premise: while a request of an item is in flight the
\* user can toggle the item's panel closed.
ToggleOperableInFlight ==
    \A i \in Items : InFlight(i) > 0 => ENABLED ClickClose(i)

\* C10 amended: no interleaving closes a panel while its request is in
\* flight: for as long as the request is in flight the panel is hidden and
\* the trigger disabled, and no step is a click on that trigger; the
\* response that then arrives with content opens the panel that stayed
\* hidden since the click, without looking at the panel's state.
NoToggleInFlight ==
    /\ [](\A i \in Items :
            InFlight(i) > 0 => (~isVisible(i) /\ ~Clickable(i)))
    /\ [][\A i \in Items : InFlight(i) > 0 => ~Click(i)]_vars
    /\ [][\A i \in Items, data \in Bodies :
            (JsonResolve(i, data) /\ ~data.null /\ data.ok # "false") =>
                /\ ~isVisible(i)
                /\ display'[i] = "block"
                /\ content'[i].tag = "pre"]_vars

\* A panel that was opened and closed before has its reload answered late
\* and is opened by the response.
NoToggleInFlightWitness ==
    \E i \in Items :
        /\ outcome[i] = "success"
        /\ failed[i] >= 1
        /\ display[i] = "block"

\* C11 as stated: the first click on the trigger after a load of the item
\* has failed (the panel still shows the notice) issues a request.
NextClickRetries ==
    [][\A i \in Items :
        (outcome[i] \in FailedOutcomes /\ isVisible(i) /\ Click(i)) =>
            requests'[i] = requests[i] + 1]_vars

\* C11 amended: a failed load leaves no cache entry behind it, and a
\* request is issued only by a click on the item's
\* trigger (no automatic retry); the first click after the failure closes
\* the panel that shows the notice and issues no request; the click after
\* that one, on the hidden panel, enters the load sequence again and, on a
\* page that carries a report identifier, finds no cache entry and issues a
\* new request.
ClickAfterCloseRetries ==
    /\ [](\A i \in Items :
            outcome[i] \in FailedOutcomes => i \notin DOMAIN cache)
    /\ [][\A i \in Items :
            requests'[i] # requests[i] =>
                (Click(i) /\ requests'[i] = requests[i] + 1)]_vars
    /\ [][\A i \in Items :
            (outcome[i] \in FailedOutcomes /\ isVisible(i) /\ Click(i)) =>
                /\ display'[i] = "none"
                /\ requests' = requests
                /\ calls' = calls]_vars
    /\ [][\A i \in Items :
            (/\ outcome[i] \in FailedOutcomes
             /\ ~isVisible(i)
             /\ hasReportId
             /\ Click(i)) =>
                /\ i \notin DOMAIN cache
                /\ requests'[i] = requests[i] + 1
                /\ Len(calls'[i]) = 1
                /\ disabled'[i]]_vars

\* A load failed, the panel was closed, and the click after that has a
\* second request in flight.
ClickAfterCloseWitness ==
    \E i \in Items :
        /\ outcome[i] \in FailedOutcomes
        /\ failed[i] = 1
        /\ requests[i] = 2
        /\ InFlight(i) = 1

\* C12: the cache is append-only: an entry that exists is still there
\* after every step, with the same value; and an entry appears only in a
\* step in which the body of a response for that item is read and is a
\* success (not null, ok not false), that is, when a load of the item
\* succeeds.
CacheAppendOnly ==
    [][\A i \in Items :
        /\ i \in DOMAIN cache =>
              (i \in DOMAIN cache' /\ cache'[i] = cache[i])
        /\ (i \notin DOMAIN cache /\ i \in DOMAIN cache') =>
              /\ outcome'[i] = "success"
              /\ \E data \in Bodies :
                    /\ JsonResolve(i, data)
                    /\ ~data.null
                    /\ data.ok # "false"]_vars

\* Both items have entries with different values, and one of them has
\* since been closed and reopened from the cache.
CacheAppendOnlyWitness ==
    /\ DOMAIN cache = Items
    /\ cache["c1"] = "Step 1"
    /\ cache["c2"] = "Step 2"
    /\ outcome["c1"] = "cache"

\* C13: a step of one item leaves every other item's panel display, panel
\* content, trigger label, trigger enabled state, suspended loads and
\* cache entry (its presence and its value) unchanged.
CrossItemIndependence ==
    [][\A x \in Items :
        ItemStep(x) =>
            \A y \in Items \ {x} :
                /\ display'[y] = display[y]
                /\ content'[y] = content[y]
                /\ label'[y] = label[y]
                /\ disabled'[y] = disabled[y]
                /\ calls'[y] = calls[y]
                /\ (y \in DOMAIN cache') <=> (y \in DOMAIN cache)
                /\ y \in DOMAIN cache => cache'[y] = cache[y]]_vars

\* The loads of the two items overlap: c2's has ended in a success and
\* filled the cache while c1's is still in flight, and c1 was loaded before
\* and failed.
CrossItemWitness ==
    /\ InFlight("c1") = 1
    /\ label["c1"] = "Loading..."
    /\ failed["c1"] = 1
    /\ outcome["c2"] = "success"
    /\ "c2" \in DOMAIN cache
    /\ display["c2"] = "block"

\* C14: with the access flag false, a click on the trigger of a hidden
\* panel sets the location to /pricing and leaves every panel's display
\* and content, every trigger's label and enabled state, the cache, the
\* suspended loads and the request counts unchanged.
RedirectChangesNoPanel ==
    [][\A i \in Items :
        (~isPro /\ ~isVisible(i) /\ Click(i)) =>
            /\ location' = "/pricing"
            /\ display' = display
            /\ content' = content
            /\ label' = label
            /\ disabled' = disabled
            /\ cache' = cache
            /\ calls' = calls
            /\ requests' = requests]_vars

\* A free user has been redirected and the page still is as delivered:
\* panels hidden and empty, triggers enabled under their first label.
RedirectWitness ==
    /\ ~isPro
    /\ location = "/pricing"
    /\ \A i \in Items :
        /\ display[i] = "none"
        /\ content[i] = EmptyPanel
        /\ label[i] = "View fix"
        /\ ~disabled[i]
    /\ cache = <<>>

\* C15 as stated: with the access flag true and no report identifier, an
\* open issues no request and ends with the retry notice shown, the label
\* it had before, the trigger enabled and no cache entry.
MissingReportIdRestoresLabel ==
    [][\A i \in Items :
        (reportId = Nil /\ OpenClick(i)) =>
            /\ requests' = requests
            /\ calls' = calls
            /\ display'[i] = "block"
            /\ content'[i] = [tag |-> "div", text |-> RetryMsg]
            /\ label'[i] = label[i]
            /\ ~disabled'[i]
            /\ i \notin DOMAIN cache']_vars

\* C15 amended: with the access flag true and no report identifier, no
\* request is ever issued; an open ends in the same step with the retry
\* notice shown, the trigger enabled, no cache entry, and the label the
\* trigger had before if that label was not empty, "Show steps" if it was.
MissingReportIdOutcome ==
    /\ [](reportId = Nil =>
            \A i \in Items : requests[i] = 0 /\ InFlight(i) = 0)
    /\ [][\A i \in Items :
            (reportId = Nil /\ OpenClick(i)) =>
                /\ requests' = requests
                /\ calls' = calls
                /\ display'[i] = "block"
                /\ content'[i] = [tag |-> "div", text |-> RetryMsg]
                /\ label'[i] = IF label[i] = "" THEN "Show steps" ELSE label[i]
                /\ ~disabled'[i]
                /\ i \notin DOMAIN cache']_vars

\* On a page without report identifier an open has ended in the catch
\* block and the label "View fix" is back.
MissingReportIdWitness ==
    \E i \in Items :
        /\ reportId = Nil
        /\ isPro
        /\ outcome[i] = "no-report-id"
        /\ display[i] = "block"
        /\ content[i].text = RetryMsg
        /\ label[i] = "View fix"
        /\ ~disabled[i]
        /\ requests[i] = 0

\* C16: (a) a response whose status is neither a success nor 402/403 ends
\* the load with the panel shown, the "Steps not found" notice, the label
\* "Show steps" and no cache entry; (b) a success status whose body is an
\* object without ok = false and with content_md absent or empty ends the
\* load with the panel shown, an empty preformatted text, the label
\* "Hide steps" and a cache entry holding the empty string.
ResponseClassification ==
    /\ [][\A i \in Items, status \in {404, 500} :
            FetchResolve(i, status) =>
                /\ Len(calls'[i]) = 0
                /\ display'[i] = "block"
                /\ content'[i] = [tag |-> "div", text |-> NotFoundMsg]
                /\ label'[i] = "Show steps"
                /\ i \notin DOMAIN cache']_vars
    /\ [][\A i \in Items :
            FetchResolve(i, 200) =>
                /\ Len(calls'[i]) = 1
                /\ calls'[i][1].pc = "json"
                /\ display' = display /\ label' = label /\ cache' = cache]_vars
    /\ [][\A i \in Items, data \in Bodies :
            (/\ JsonResolve(i, data)
             /\ ~data.null /\ data.ok # "false"
             /\ data.content_md \in {"absent", ""}) =>
                /\ Len(calls'[i]) = 0
                /\ display'[i] = "block"
                /\ content'[i] = [tag |-> "pre", text |-> ""]
                /\ label'[i] = "Hide steps"
                /\ i \in DOMAIN cache'
                /\ cache'[i] = ""]_vars

\* One item ended on a non-success status, the other on a success without
\* text.
ResponseClassificationWitness ==
    /\ outcome["c1"] = "status-error"
    /\ content["c1"].text = NotFoundMsg
    /\ label["c1"] = "Show steps"
    /\ "c1" \notin DOMAIN cache
    /\ outcome["c2"] = "success"
    /\ "c2" \in DOMAIN cache
    /\ cache["c2"] = ""
    /\ content["c2"] = [tag |-> "pre", text |-> ""]
    /\ label["c2"] = "Hide steps"

\* C17: a change event of a toggle leaves the page flags, the location, the
\* cache and every panel and trigger unchanged; and no step of the loader
\* (a click, a settlement) changes a toggle or the display of a row.
ComponentsIndependent ==
    /\ [][(ChangeNa \/ ChangePass) =>
            /\ UNCHANGED <<location, cache, display, content, label, disabled,
                           calls, requests, failed>>
            /\ UNCHANGED <<reportId, dataIsPro>>]_vars
    /\ [][(\E i \in Items : ItemStep(i)) =>
            UNCHANGED <<toggleNa, togglePass, rowDisplay>>]_vars
    /\ [][rowDisplay' # rowDisplay => (ChangeNa \/ ChangePass)]_vars

\* Rows are filtered while a panel is open and another load is in flight.
ComponentsIndependentWitness ==
    /\ toggleNa = "checked"
    /\ togglePass = "unchecked"
    /\ rowDisplay[[na |-> TRUE, pass |-> FALSE]] = "none"
    /\ rowDisplay[[na |-> FALSE, pass |-> TRUE]] = ""
    /\ display["c1"] = "block"
    /\ outcome["c1"] = "success"
    /\ InFlight("c2") = 1

\* C18: the trigger of an item is disabled exactly while a load of the item
\* is suspended; while it is, the label is the loading indicator and the
\* panel is hidden; a hidden panel becomes visible only in a step that ends
\* a load of the item, and that step leaves the trigger enabled.
DisabledWhileLoading ==
    /\ [](\A i \in Items :
            /\ disabled[i] <=> InFlight(i) > 0
            /\ InFlight(i) > 0 =>
                  (label[i] = LoadingLabel /\ ~isVisible(i)))
    /\ [][\A i \in Items :
            (~isVisible(i) /\ display'[i] # "none") =>
                /\ \/ Len(calls'[i]) < Len(calls[i])
                   \/ ClickCacheHit(i)
                   \/ ClickMissingReportId(i)
                /\ Len(calls'[i]) = 0
                /\ ~disabled'[i]]_vars

\* A load is suspended on the body read: trigger disabled, loading label,
\* panel hidden.
DisabledWhileLoadingWitness ==
    \E i \in Items :
        /\ InFlight(i) = 1
        /\ calls[i][1].pc = "json"
        /\ disabled[i]
        /\ label[i] = LoadingLabel
        /\ display[i] = "none"

\* C19: from panels delivered hidden and triggers delivered under any of
\* the first labels of the model ("Show steps" among them), in every state
\* a trigger labelled "Hide steps" has its panel visible, its item in the
\* cache, and the panel holding the preformatted text equal to the cache
\* entry; and a panel holding one of the three notices does not have a
\* trigger labelled "Hide steps".
HideStepsMeansCachedContent ==
    \A i \in Items :
        /\ label[i] = "Hide steps" =>
              /\ display[i] = "block"
              /\ i \in DOMAIN cache
              /\ content[i] = [tag |-> "pre", text |-> cache[i]]
        /\ content[i].text \in {ProRequiredMsg, NotFoundMsg, RetryMsg} =>
              label[i] # "Hide steps"

\* One panel is open on its cached text under "Hide steps", the other
\* shows a notice under "Show steps".
HideStepsWitness ==
    /\ label["c1"] = "Hide steps"
    /\ display["c1"] = "block"
    /\ cache["c1"] = "Step 2"
    /\ content["c1"] = [tag |-> "pre", text |-> "Step 2"]
    /\ display["c2"] = "block"
    /\ content["c2"].text = NotFoundMsg
    /\ label["c2"] = "Show steps"

\* C20: a success status whose parsed body is null (or another falsy
\* value) or carries ok = false ends the load as a failure: the panel is
\* shown with the "Pro required" notice if the body's reason is
\* PRO_REQUIRED and with the "Steps not found" notice otherwise, the label
\* is "Show steps", and no cache entry is created.
BodyFailureOutcome ==
    [][\A i \in Items, data \in Bodies :
        (JsonResolve(i, data) /\ (data.null \/ data.ok = "false")) =>
            /\ Len(calls'[i]) = 0
            /\ display'[i] = "block"
            /\ content'[i] =
                  [tag |-> "div",
                   text |-> IF ~data.null /\ data.reason = "PRO_REQUIRED"
                            THEN ProRequiredMsg
                            ELSE NotFoundMsg]
            /\ label'[i] = "Show steps"
            /\ i \notin DOMAIN cache']_vars

\* Both kinds of body failure have happened: one item shows "Pro
\* required", the other "Steps not found", after a success status.
BodyFailureWitness ==
    /\ \A i \in Items :
        /\ outcome[i] = "body-failure"
        /\ display[i] = "block"
        /\ label[i] = "Show steps"
        /\ i \notin DOMAIN cache
    /\ content["c1"].text = ProRequiredMsg
    /\ content["c2"].text = NotFoundMsg

====
